---- MODULE Spec2Model ----
(***************************************************************************)
(* Keypoint stabilisation and repetition counting of pose-correct-pro:     *)
(* RepCounter (src/src/pose/PoseBackend.ts) and KeypointSmoother           *)
(* (src/src/pose/smoothing.ts), modelled as state machines over the        *)
(* fields of the two classes.                                              *)
(*                                                                         *)
(* Numbers.  The source computes in IEEE doubles; the model computes in    *)
(* exact integers:                                                         *)
(*   - coordinates are whole pixels on input;                              *)
(*   - angles are held in units of 1/12 degree (AngleScale), which makes   *)
(*     the average of two whole-degree angles and the mean of one, two or  *)
(*     three such averages exact;                                          *)
(*   - NaN, undefined and null are the sentinels NaN, Undefined and Null,  *)
(*     and the arithmetic and comparison helpers treat NaN as JavaScript   *)
(*     does (it propagates through + and /, every comparison with it is    *)
(*     false).                                                             *)
(***************************************************************************)
EXTENDS Integers, Sequences, FiniteSets, TLC

VARIABLES
    now,            \* Date.now(), in milliseconds
    exerciseType,   \* RepCounter.exerciseType
    state,          \* RepCounter.state : RepState
    angleHistory,   \* RepCounter.angleHistory
    previousKeypoints, \* KeypointSmoother.previousKeypoints
    alpha,          \* KeypointSmoother.alpha, in thousandths
    frame,          \* the poses given to the last smooth()
    emitted,        \* the poses the last smooth() returned
    call,           \* the operation executed last, and the kind of frame it was given
    cycle,          \* where the smoothed angle signal stands in its down-up cycle
    streak,         \* per stored joint, the frames in a row that stored a detection
    camera          \* PoseCamera: its refs, its state and its pending callbacks

counterVars == <<exerciseType, state, angleHistory>>
vars == <<now, exerciseType, state, angleHistory, previousKeypoints, alpha,
         frame, emitted, call, cycle, streak, camera>>

----------------------------------------------------------------------------
(* Bounds of the model *)

\* how many debounce windows of time the clock runs through
MaxWindows == 2

\* how many frames the smoother is given
MaxFrames == 4

\* how many frames the smoother is given in a long run
MaxRun == 9

\* how many times the camera is started, how many detection loops are
\* started, how many detect() callbacks wait for their estimate at once, and
\* how many half no-pose timeouts the camera's clock runs through; how many
\* times a detection timer fires
MaxStarts == 2
MaxTicks == 3
MaxLoops == 2
MaxInFlight == 2
MaxHalfTimeouts == 2

----------------------------------------------------------------------------
(* JavaScript values *)

NaN == -999999
Undefined == -1
Null == -2
NoName == ""

IsNaN(v) == v = NaN
NumAdd(a, b) == IF IsNaN(a) \/ IsNaN(b) THEN NaN ELSE a + b
NumLt(a, b) == ~IsNaN(a) /\ ~IsNaN(b) /\ a < b
NumGt(a, b) == ~IsNaN(a) /\ ~IsNaN(b) /\ a > b

\* kp.score ?? 0
ScoreOr0(kp) == IF kp.score = Undefined THEN 0 ELSE kp.score

\* angles are held in twelfths of a degree
AngleScale == 12
Deg(d) == d * AngleScale

\* Math.round of an angle held in twelfths of a degree: the nearest whole
\* degree, halves rounded up; Math.round(NaN) is NaN
MathRound(a) == IF IsNaN(a) THEN NaN ELSE (a + AngleScale \div 2) \div AngleScale

Keypoint(name, x, y, score) == [name |-> name, x |-> x, y |-> y, score |-> score]

----------------------------------------------------------------------------
(* RepCounter: constants *)

DEBOUNCE_MS == 300
RepCounter_MIN_CONFIDENCE == 500
SMOOTHING_WINDOW == 3
ExerciseTypes == {"squat", "pushup", "bicep_curl"}

\* The clock advances by half a debounce window, by the window exactly, or
\* by one millisecond more than the window.
ClockSteps == {DEBOUNCE_MS \div 2, DEBOUNCE_MS, DEBOUNCE_MS + 1}
MaxClock == MaxWindows * (DEBOUNCE_MS + 1)

----------------------------------------------------------------------------
(* RepCounter: angleBetween *)

\* Math.acos(Math.max(-1, Math.min(1, cosine))) * (180 / Math.PI) for
\* cosine = dot / sqrt(magAB2 * magCB2), decided on the squared cosine.
\* The frames of this model only form angles that are multiples of 45
\* degrees; 0 / 0 is NaN and stays NaN through min, max and acos.
AcosDeg(dot, magAB2, magCB2) ==
    CASE magAB2 * magCB2 = 0 -> NaN
      [] magAB2 * magCB2 # 0 /\ dot = 0 -> Deg(90)
      [] dot > 0 /\ dot * dot >= magAB2 * magCB2 -> Deg(0)
      [] dot < 0 /\ dot * dot >= magAB2 * magCB2 -> Deg(180)
      [] dot > 0 /\ 2 * dot * dot = magAB2 * magCB2 -> Deg(45)
      [] dot < 0 /\ 2 * dot * dot = magAB2 * magCB2 -> Deg(135)

angleBetween(a, b, c) ==
    LET abx == a.x - b.x
        aby == a.y - b.y
        cbx == c.x - b.x
        cby == c.y - b.y
        dot == abx * cbx + aby * cby
        magAB2 == abx * abx + aby * aby
        magCB2 == cbx * cbx + cby * cby
    IN  AcosDeg(dot, magAB2, magCB2)

----------------------------------------------------------------------------
(* RepCounter: methods *)

RECURSIVE SumAngles(_)
SumAngles(h) == IF h = <<>> THEN 0 ELSE NumAdd(Head(h), SumAngles(Tail(h)))

PushAngle_KeepsOldest(hist, angle) ==
    LET pushed == Append(hist, angle)
    IN  IF Len(pushed) > SMOOTHING_WINDOW
        THEN SubSeq(pushed, 1, SMOOTHING_WINDOW)
        ELSE pushed

\* the window after push and shift
PushAngle(hist, angle) ==
    LET pushed == Append(hist, angle)
    IN  IF Len(pushed) > SMOOTHING_WINDOW THEN Tail(pushed) ELSE pushed

\* reduce((a, b) => a + b, 0) / length
MeanAngle(hist) ==
    LET sum == SumAngles(hist)
    IN  IF IsNaN(sum) THEN NaN ELSE sum \div Len(hist)

smoothAngle(hist, angle) ==
    [angleHistory |-> PushAngle(hist, angle),
     value |-> MeanAngle(PushAngle(hist, angle))]

\* pose.keypoints.find((k) => k.name === name): the first match.  A value
\* that may be null is a sequence of length 0 (null) or 1.
FindByName(kps, name) ==
    LET hits == {i \in 1..Len(kps) : kps[i].name = name}
    IN  IF hits = {} THEN <<>>
        ELSE <<kps[CHOOSE i \in hits : \A j \in hits : i <= j]>>

getKeypoint_AnyScore(pose, name) == FindByName(pose.keypoints, name)

getKeypoint(pose, name) ==
    LET kp == FindByName(pose.keypoints, name)
    IN  IF kp = <<>> THEN <<>>
        ELSE IF ScoreOr0(kp[1]) < RepCounter_MIN_CONFIDENCE THEN <<>>
        ELSE kp

SquatJoints ==
    <<"left_hip", "left_knee", "left_ankle", "right_hip", "right_knee", "right_ankle">>

computeSquatAngle(pose) ==
    LET leftHip == getKeypoint(pose, "left_hip")
        leftKnee == getKeypoint(pose, "left_knee")
        leftAnkle == getKeypoint(pose, "left_ankle")
        rightHip == getKeypoint(pose, "right_hip")
        rightKnee == getKeypoint(pose, "right_knee")
        rightAnkle == getKeypoint(pose, "right_ankle")
    IN  IF \/ leftHip = <<>> \/ leftKnee = <<>> \/ leftAnkle = <<>>
           \/ rightHip = <<>> \/ rightKnee = <<>> \/ rightAnkle = <<>>
        THEN Null
        ELSE LET leftKneeAngle == angleBetween(leftHip[1], leftKnee[1], leftAnkle[1])
                 rightKneeAngle == angleBetween(rightHip[1], rightKnee[1], rightAnkle[1])
                 sum == NumAdd(leftKneeAngle, rightKneeAngle)
             IN  IF IsNaN(sum) THEN NaN ELSE sum \div 2

----------------------------------------------------------------------------
(* Frames fed to the counter *)

\* pixel positions of the two knees, and the offsets of hip and ankle
LeftKneeX == 100
RightKneeX == 300
KneeY == 200
Limb == 40

\* scores of the frames: trusted, and below the counter's 0.5
GoodScore == 900
LowScore == 400

\* where the ankle lies for a knee angle; "same" puts it on the knee
AnkleBends == {"straight", "deep", "same"}
AnkleOf(kx, bend) ==
    CASE bend = "straight" -> [x |-> kx, y |-> KneeY + Limb]
      [] bend = "deep" -> [x |-> kx + Limb, y |-> KneeY - Limb]
      [] bend = "same" -> [x |-> kx, y |-> KneeY]

\* a joint of the frame can be left out or reported with a low score
Defects == {"none", "absent", "low", "unscored"}

FullSquatKeypoints(lb, rb) ==
    <<Keypoint("nose", LeftKneeX, 0, GoodScore),
      Keypoint("left_hip", LeftKneeX, KneeY - Limb, GoodScore),
      Keypoint("left_knee", LeftKneeX, KneeY, GoodScore),
      Keypoint("left_ankle", AnkleOf(LeftKneeX, lb).x, AnkleOf(LeftKneeX, lb).y, GoodScore),
      Keypoint("right_hip", RightKneeX, KneeY - Limb, GoodScore),
      Keypoint("right_knee", RightKneeX, KneeY, GoodScore),
      Keypoint("right_ankle", AnkleOf(RightKneeX, rb).x, AnkleOf(RightKneeX, rb).y, GoodScore)>>

\* kps without its keypoints named name
DropJoint(kps, name) == SelectSeq(kps, LAMBDA k : k.name # name)

\* kps with the score of the keypoints named name replaced
Rescore(kps, name, score) ==
    [i \in 1..Len(kps) |->
        IF kps[i].name = name THEN [kps[i] EXCEPT !.score = score] ELSE kps[i]]

SquatPose(lb, rb, joint, defect) ==
    [keypoints |->
        CASE defect = "none" -> FullSquatKeypoints(lb, rb)
          [] defect = "absent" -> DropJoint(FullSquatKeypoints(lb, rb), joint)
          [] defect = "low" -> Rescore(FullSquatKeypoints(lb, rb), joint, LowScore)
          [] defect = "unscored" -> Rescore(FullSquatKeypoints(lb, rb), joint, Undefined)]

\* the frames offered to update(): no pose; four full poses (standing, deep,
\* one leg bent, left ankle on the left knee); and a deep pose with each
\* required joint in turn absent, below the counter's confidence or unscored
CounterFrames ==
    {<<>>}
    \cup {<<SquatPose(lr[1], lr[2], "left_hip", "none")>> :
            lr \in {<<"straight", "straight">>, <<"deep", "deep">>,
                    <<"straight", "deep">>, <<"same", "straight">>}}
    \cup {<<SquatPose("deep", "deep", SquatJoints[j], d)>> :
            j \in 1..Len(SquatJoints), d \in Defects \ {"none"}}

\* What a frame is, read off the frame alone (not off what update() does
\* with it): "empty" has no pose; "unusable" lacks a required joint of the
\* squat angle in its first pose, or has it below 0.5; "degenerate" has a
\* knee on top of its hip or ankle; every other frame is "regular".
Required(pose, name) ==
    \E i \in 1..Len(pose.keypoints) :
        /\ pose.keypoints[i].name = name
        /\ pose.keypoints[i].score # Undefined
        /\ pose.keypoints[i].score >= RepCounter_MIN_CONFIDENCE

At(pose, name) ==
    LET i == CHOOSE i \in 1..Len(pose.keypoints) : pose.keypoints[i].name = name
    IN  <<pose.keypoints[i].x, pose.keypoints[i].y>>

FrameKind(poses) ==
    IF poses = <<>> THEN "empty"
    ELSE IF \E j \in 1..Len(SquatJoints) : ~Required(poses[1], SquatJoints[j])
    THEN "unusable"
    ELSE IF \/ At(poses[1], "left_knee") = At(poses[1], "left_hip")
            \/ At(poses[1], "left_knee") = At(poses[1], "left_ankle")
            \/ At(poses[1], "right_knee") = At(poses[1], "right_hip")
            \/ At(poses[1], "right_knee") = At(poses[1], "right_ankle")
    THEN "degenerate"
    ELSE "regular"

----------------------------------------------------------------------------
(* RepCounter: update, reset, setExercise *)

GoesDown_OnlyFromUp(st, smoothedAngle) ==
    NumLt(smoothedAngle, Deg(90)) /\ st.state = "up"

\* smoothedAngle < 90 && this.state.state !== 'down'
GoesDown(st, smoothedAngle) ==
    NumLt(smoothedAngle, Deg(90)) /\ st.state # "down"

DebounceElapsed_Off(timeSinceLastRep) == TRUE

DebounceElapsed_Twice(timeSinceLastRep) == timeSinceLastRep > 2 * DEBOUNCE_MS

\* timeSinceLastRep > this.DEBOUNCE_MS
DebounceElapsed(timeSinceLastRep) == timeSinceLastRep > DEBOUNCE_MS

\* smoothedAngle > 160 && this.state.state === 'down' && debounce elapsed
CountsRep(st, smoothedAngle, timeSinceLastRep) ==
    /\ NumGt(smoothedAngle, Deg(160))
    /\ st.state = "down"
    /\ DebounceElapsed(timeSinceLastRep)

SquatTransition_Restarts(st, smoothedAngle, t) ==
    IF GoesDown(st, smoothedAngle)
    THEN [st EXCEPT !.state = "down", !.count = 0]
    ELSE IF CountsRep(st, smoothedAngle, t - st.lastRepTime)
    THEN [st EXCEPT !.count = @ + 1, !.state = "up", !.lastRepTime = t]
    ELSE st

\* the branch of update() under exerciseType === 'squat'
SquatTransition(st, smoothedAngle, t) ==
    IF GoesDown(st, smoothedAngle)
    THEN [st EXCEPT !.state = "down"]
    ELSE IF CountsRep(st, smoothedAngle, t - st.lastRepTime)
    THEN [st EXCEPT !.count = @ + 1, !.state = "up", !.lastRepTime = t]
    ELSE st

\* computeSquatAngle of the first pose of every frame offered, computed once
SquatAngleOf == [poses \in CounterFrames \ {<<>>} |-> computeSquatAngle(poses[1])]

\* the exercise angle of update(): only 'squat' has a rule
ExerciseAngle(type, pose) ==
    IF type # "squat" THEN Null
    ELSE IF <<pose>> \in DOMAIN SquatAngleOf THEN SquatAngleOf[<<pose>>]
    ELSE computeSquatAngle(pose)

\* update() from "const pose = poses[0]" on
updateWithPose(rc, pose, t) ==
    LET angle == ExerciseAngle(rc.exerciseType, pose)
    IN  IF angle = Null THEN rc
        ELSE LET sm == smoothAngle(rc.angleHistory, angle)
                 st == [rc.state EXCEPT !.angle = MathRound(sm.value)]
             IN  [exerciseType |-> rc.exerciseType,
                  state |-> IF rc.exerciseType = "squat"
                            THEN SquatTransition(st, sm.value, t)
                            ELSE st,
                  angleHistory |-> sm.angleHistory]

update_TouchesEmpty(rc, poses, t) ==
    IF Len(poses) = 0
    THEN [rc EXCEPT !.state.angle = 0, !.angleHistory = <<>>]
    ELSE updateWithPose(rc, poses[1], t)

\* update(poses) at time t, on the counter rc = [exerciseType, state, angleHistory]
update(rc, poses, t) ==
    IF Len(poses) = 0 THEN rc ELSE updateWithPose(rc, poses[1], t)

\* new RepCounter(type) at time t
NewRepCounter(type, t) ==
    [exerciseType |-> type,
     state |-> [count |-> 0, angle |-> 0, state |-> "idle", lastRepTime |-> t],
     angleHistory |-> <<>>]

reset_KeepsCount(rc, t) ==
    [exerciseType |-> rc.exerciseType,
     state |-> [count |-> rc.state.count, angle |-> 0, state |-> "idle",
                lastRepTime |-> t],
     angleHistory |-> <<>>]

reset_KeepsWindow(rc, t) ==
    [rc EXCEPT !.state = [count |-> 0, angle |-> 0, state |-> "idle", lastRepTime |-> t]]

reset(rc, t) ==
    [exerciseType |-> rc.exerciseType,
     state |-> [count |-> 0, angle |-> 0, state |-> "idle", lastRepTime |-> t],
     angleHistory |-> <<>>]

setExercise(rc, type, t) == reset([rc EXCEPT !.exerciseType = type], t)

----------------------------------------------------------------------------
(* The counter as a state machine *)

RC == [exerciseType |-> exerciseType, state |-> state, angleHistory |-> angleHistory]

SetRC(rc) ==
    /\ exerciseType' = rc.exerciseType
    /\ state' = rc.state
    /\ angleHistory' = rc.angleHistory

\* the record kept in call: the operation, the kind of its frame and the raw
\* exercise angle update() computed from it (Null when it computed none)
Called(op, kind) == [op |-> op, kind |-> kind, raw |-> Null]

\* FrameKind of every frame offered
KindOf == [poses \in CounterFrames |-> FrameKind(poses)]

\* The smoothed angle update() works with for a frame of this kind, read
\* from the window it leaves; Null when the frame gives it no angle.
SmoothedOf(type, kind, window) ==
    IF type = "squat" /\ kind \in {"regular", "degenerate"}
    THEN MeanAngle(window)
    ELSE Null

\* cycle follows the smoothed angle signal since construction, the last
\* reset and the last increment of count: phase "none" until the signal is
\* first below 90 degrees (lowAt), then "low" until it is first above 160
\* degrees (highAt), then "high" while no increment has followed.  A signal
\* that falls below 90 again in phase "high" starts the next cycle.
NoCycle == [phase |-> "none", lowAt |-> 0, highAt |-> 0]

NextCycle(c, smoothed, t, counted) ==
    IF counted THEN NoCycle
    ELSE IF smoothed = Null THEN c
    ELSE IF NumLt(smoothed, Deg(90))
    THEN (IF c.phase = "low" THEN c ELSE [phase |-> "low", lowAt |-> t, highAt |-> 0])
    ELSE IF NumGt(smoothed, Deg(160)) /\ c.phase = "low"
    THEN [c EXCEPT !.phase = "high", !.highAt = t]
    ELSE c

\* the empty Map of the field initialiser of KeypointSmoother
NoHistory == [k \in {} |-> 0]

\* the smoother of PoseCamera: new KeypointSmoother(0.3)
ConstructedAlpha == 300

\* the component is not part of this run
NoCamera == [mounted |-> FALSE]

\* both objects as constructed at time 0: new RepCounter(type) and
\* new KeypointSmoother(a)
Constructed(type, a) ==
    /\ now = 0
    /\ exerciseType = NewRepCounter(type, 0).exerciseType
    /\ state = NewRepCounter(type, 0).state
    /\ angleHistory = NewRepCounter(type, 0).angleHistory
    /\ previousKeypoints = NoHistory
    /\ alpha = a
    /\ frame = <<>>
    /\ emitted = <<>>
    /\ call = Called("new", "none")
    /\ cycle = NoCycle
    /\ streak = NoHistory
    /\ camera = NoCamera

idleSmoother == <<previousKeypoints, alpha, frame, emitted, streak, camera>>

InitCounter == \E type \in ExerciseTypes : Constructed(type, ConstructedAlpha)

Tick ==
    \E d \in ClockSteps :
        /\ now + d <= MaxClock
        /\ now' = now + d
        /\ call' = Called("tick", "none")
        /\ UNCHANGED <<counterVars, cycle, idleSmoother>>

Update ==
    \E poses \in CounterFrames :
        LET r == update(RC, poses, now)
        IN  /\ SetRC(r)
            /\ call' = [Called("update", KindOf[poses]) EXCEPT
                          !.raw = IF poses = <<>> THEN Null
                                  ELSE ExerciseAngle(exerciseType, poses[1])]
            /\ cycle' = NextCycle(cycle,
                                  SmoothedOf(exerciseType, KindOf[poses], r.angleHistory),
                                  now, r.state.count # state.count)
            /\ UNCHANGED <<now, idleSmoother>>

Reset ==
    /\ SetRC(reset(RC, now))
    /\ call' = Called("reset", "none")
    /\ cycle' = NoCycle
    /\ UNCHANGED <<now, idleSmoother>>

SetExercise ==
    \E type \in ExerciseTypes :
        /\ SetRC(setExercise(RC, type, now))
        /\ call' = Called("setExercise", "none")
        /\ cycle' = NoCycle
        /\ UNCHANGED <<now, idleSmoother>>

NextCounter == Tick \/ Update \/ Reset \/ SetExercise

SpecCounter == InitCounter /\ [][NextCounter]_vars

----------------------------------------------------------------------------
(* KeypointSmoother: constants and arithmetic *)

Smoother_MIN_CONFIDENCE == 250
RENDER_CONFIDENCE == 350
STABILITY_THRESHOLD == 3
MAX_POSITION_JUMP == 100

\* coordinates given to the smoother are held in hundredths of a pixel, the
\* smoothing factor in thousandths
PosScale == 100
AlphaScale == 1000

\* n / d to the nearest integer, for d > 0
RoundDiv(n, d) == (2 * n + d) \div (2 * d)

Max(a, b) == IF a >= b THEN a ELSE b
Min(a, b) == IF a <= b THEN a ELSE b

\* kp.name || `${kp.x}_${kp.y}`: the name, or the position of a keypoint
\* without one
KeyOf(kp) ==
    IF kp.name # NoName
    THEN [name |-> kp.name, x |-> 0, y |-> 0]
    ELSE [name |-> NoName, x |-> kp.x, y |-> kp.y]

\* Math.max(0.1, Math.min(1.0, alpha))
ClampAlpha(a) == Max(AlphaScale \div 10, Min(AlphaScale, a))

setAlpha(a) == ClampAlpha(a)

isValidJump_Always(current, previous) == TRUE

\* Math.hypot(dx, dy) < MAX_POSITION_JUMP, decided on the squares
isValidJump(current, previous) ==
    LET dx == current.x - previous.x
        dy == current.y - previous.y
    IN  dx * dx + dy * dy
          < (MAX_POSITION_JUMP * PosScale) * (MAX_POSITION_JUMP * PosScale)

TooFaint_Never(confidence) == FALSE

\* confidence < this.MIN_CONFIDENCE
TooFaint(confidence) == confidence < Smoother_MIN_CONFIDENCE

NextStability_Uncapped(count) == count + 1

\* Math.min(history.stabilityCount + 1, this.STABILITY_THRESHOLD + 5)
NextStability(count) == Min(count + 1, STABILITY_THRESHOLD + 5)

Renderable_Any(kp) == TRUE

\* history.keypoint.score && history.keypoint.score >= RENDER_CONFIDENCE
Renderable(kp) ==
    kp.score # Undefined /\ kp.score # 0 /\ kp.score >= RENDER_CONFIDENCE

\* Math.max(0, (kp.score ?? 0) * 0.9) and ... * 0.95
Decayed(kp, percent) == Max(0, RoundDiv(ScoreOr0(kp) * percent, 100))

\* confidence > 0.7 ? this.alpha : this.alpha * 0.7
AdaptiveAlpha(a, confidence) ==
    IF confidence > 700 THEN a ELSE RoundDiv(a * 7, 10)

\* adaptiveAlpha * current + (1 - adaptiveAlpha) * previous
Blend(aa, current, previous) ==
    RoundDiv(aa * current + (AlphaScale - aa) * previous, AlphaScale)

\* 0.8 * confidence + 0.2 * (prev.score ?? confidence)
BlendScore(confidence, prev) ==
    RoundDiv(8 * confidence
               + 2 * (IF prev.score = Undefined THEN confidence ELSE prev.score),
             10)

----------------------------------------------------------------------------
(* KeypointSmoother: smooth, reset *)

\* The body of pose.keypoints.map(kp => ...) for one keypoint: the keypoint
\* returned and the map previousKeypoints after it.
smoothKeypoint(kp, history, a, t) ==
    LET key == KeyOf(kp)
        has == key \in DOMAIN history
        confidence == ScoreOr0(kp)
    IN  IF TooFaint(confidence)
        THEN IF has /\ Renderable(history[key].keypoint)
             THEN [out |-> [history[key].keypoint EXCEPT
                              !.score = Decayed(history[key].keypoint, 90)],
                   history |-> history]
             ELSE [out |-> [kp EXCEPT !.score = 0], history |-> history]
        ELSE IF has /\ ~isValidJump(kp, history[key].keypoint)
        THEN [out |-> [history[key].keypoint EXCEPT
                         !.score = Decayed(history[key].keypoint, 95)],
              history |-> history]
        ELSE LET prev == history[key].keypoint
                 aa == AdaptiveAlpha(a, confidence)
                 smoothed ==
                     IF has
                     THEN [name |-> kp.name,
                           x |-> Blend(aa, kp.x, prev.x),
                           y |-> Blend(aa, kp.y, prev.y),
                           score |-> BlendScore(confidence, prev)]
                     ELSE kp
                 stabilityCount ==
                     IF has
                     THEN NextStability(history[key].stabilityCount)
                     ELSE 1
                 stored == [keypoint |-> smoothed, timestamp |-> t,
                            stabilityCount |-> stabilityCount]
                 after == [k \in DOMAIN history \cup {key} |->
                             IF k = key THEN stored ELSE history[k]]
             IN  IF stabilityCount >= STABILITY_THRESHOLD
                    /\ ScoreOr0(smoothed) >= RENDER_CONFIDENCE
                 THEN [out |-> smoothed, history |-> after]
                 ELSE [out |-> [smoothed EXCEPT !.score = 0], history |-> after]

\* a map over the keypoints that leaves out those it would mark with score 0
RECURSIVE smoothKeypoints_DropsUntrusted(_, _, _, _)
smoothKeypoints_DropsUntrusted(kps, history, a, t) ==
    IF kps = <<>> THEN [out |-> <<>>, history |-> history]
    ELSE LET first == smoothKeypoint(Head(kps), history, a, t)
             rest == smoothKeypoints_DropsUntrusted(Tail(kps), first.history, a, t)
         IN  [out |-> (IF first.out.score = 0 THEN <<>> ELSE <<first.out>>) \o rest.out,
              history |-> rest.history]

\* pose.keypoints.map over the keypoints in order, each seeing the map as
\* the keypoints before it left it
RECURSIVE smoothKeypoints(_, _, _, _)
smoothKeypoints(kps, history, a, t) ==
    IF kps = <<>> THEN [out |-> <<>>, history |-> history]
    ELSE LET first == smoothKeypoint(Head(kps), history, a, t)
             rest == smoothKeypoints(Tail(kps), first.history, a, t)
         IN  [out |-> <<first.out>> \o rest.out, history |-> rest.history]

\* poses.map over the poses in order
RECURSIVE smoothPoses(_, _, _, _)
smoothPoses(poses, history, a, t) ==
    IF poses = <<>> THEN [out |-> <<>>, history |-> history]
    ELSE LET first == smoothKeypoints(Head(poses).keypoints, history, a, t)
             rest == smoothPoses(Tail(poses), first.history, a, t)
         IN  [out |-> <<[Head(poses) EXCEPT !.keypoints = first.out]>> \o rest.out,
              history |-> rest.history]

\* a clear() that leaves the entry of the left knee behind
Smoother_reset_LeavesStale ==
    [k \in {KeyOf(Keypoint("left_knee", 0, 0, 0))} |->
        [keypoint |-> Keypoint("left_knee", 100 * PosScale, 200 * PosScale, 900),
         timestamp |-> 0,
         stabilityCount |-> STABILITY_THRESHOLD]]

\* this.previousKeypoints.clear()
Smoother_reset == [k \in {} |-> 0]

\* smooth(poses) at time t: the poses returned and previousKeypoints after
smooth(poses, history, a, t) ==
    IF Len(poses) = 0 THEN [out |-> poses, history |-> history]
    ELSE smoothPoses(poses, history, a, t)

----------------------------------------------------------------------------
(* Frames fed to the smoother *)

\* three places for the knee, in pixels: B lies exactly MAX_POSITION_JUMP
\* from A (60 across, 80 down); C lies half of MAX_POSITION_JUMP from A (30
\* and 40 the other way) and so farther than MAX_POSITION_JUMP from B
KneeSpots == {<<100, 200>>, <<160, 280>>, <<70, 160>>}

\* no score; between minimum and render threshold; above the
\* high-confidence cutoff
KneeScores == {Undefined, 300, 900}

KneeAt(spot, score) ==
    Keypoint("left_knee", spot[1] * PosScale, spot[2] * PosScale, score)

\* a keypoint without a name, at a fixed place
Unnamed(score) == Keypoint(NoName, 50 * PosScale, 50 * PosScale, score)

\* no pose; the knee with every score at the first place and trusted at the
\* others; the knee and a keypoint without a name; two poses with a knee each
SmootherFrames ==
    {<<>>}
    \cup {<<[keypoints |-> <<KneeAt(<<100, 200>>, score)>>]>> : score \in KneeScores}
    \cup {<<[keypoints |-> <<KneeAt(spot, 900)>>]>> : spot \in KneeSpots}
    \cup {<<[keypoints |-> <<KneeAt(<<100, 200>>, 900), Unnamed(score)>>]>> :
            score \in {200, 900}}
    \cup {<<[keypoints |-> <<KneeAt(<<100, 200>>, 900)>>],
             [keypoints |-> <<KneeAt(<<70, 160>>, 900)>>]>>}

\* the arguments callers give to the constructor: the one of PoseCamera and
\* one above [0.1, 1.0]
ConstructorArgs == {ConstructedAlpha, 1500}

\* the arguments callers give to setAlpha: below and above [0.1, 1.0]
AlphaArgs == {50, 1500}

\* the detection loop runs on a timer of 1000 / 15 ms
FRAME_INTERVAL == 66

----------------------------------------------------------------------------
(* The smoother as a state machine *)

idleCounter == <<exerciseType, state, angleHistory, cycle, camera>>

InitSmoother == \E a \in ConstructorArgs : Constructed("squat", a)

\* streak after a smooth() at time t that left the map as history: a joint
\* whose entry was stored by this call has one frame more in its row, every
\* other stored joint starts over
NextStreak(history, t) ==
    [k \in DOMAIN history |->
        IF history[k].timestamp = t
        THEN (IF k \in DOMAIN streak THEN streak[k] ELSE 0) + 1
        ELSE 0]

\* one tick of the detection loop, while the clock is before lastTick:
\* smooth(poses) on the frame of this tick
SmoothStep(poses, lastTick) ==
    /\ now + FRAME_INTERVAL <= lastTick
    /\ now' = now + FRAME_INTERVAL
    /\ LET r == smooth(poses, previousKeypoints, alpha, now')
       IN  /\ previousKeypoints' = r.history
           /\ emitted' = r.out
           /\ streak' = NextStreak(r.history, now')
    /\ frame' = poses
    /\ call' = Called("smooth", "none")
    /\ UNCHANGED <<alpha, idleCounter>>

Smooth ==
    \E poses \in SmootherFrames : SmoothStep(poses, MaxFrames * FRAME_INTERVAL)

SmootherReset ==
    /\ previousKeypoints' = Smoother_reset
    /\ streak' = NoHistory
    /\ call' = Called("smootherReset", "none")
    /\ UNCHANGED <<now, alpha, frame, emitted, idleCounter>>

SetAlpha ==
    \E a \in AlphaArgs :
        /\ alpha' = setAlpha(a)
        /\ call' = Called("setAlpha", "none")
        /\ UNCHANGED <<now, previousKeypoints, frame, emitted, streak, idleCounter>>

NextSmoother == Smooth \/ SmootherReset \/ SetAlpha

SpecSmoother == InitSmoother /\ [][NextSmoother]_vars

----------------------------------------------------------------------------
(* The smoother following one joint through a long run of frames *)

\* the knee at the first place with every score, and trusted at the place
\* exactly MAX_POSITION_JUMP away
RunFrames ==
    {<<[keypoints |-> <<KneeAt(<<100, 200>>, score)>>]>> : score \in KneeScores}
    \cup {<<[keypoints |-> <<KneeAt(<<160, 280>>, 900)>>]>>}

InitRun == Constructed("squat", ConstructedAlpha)

SmoothRun ==
    \E poses \in RunFrames : SmoothStep(poses, MaxRun * FRAME_INTERVAL)

NextRun == SmoothRun \/ SmootherReset

SpecRun == InitRun /\ [][NextRun]_vars

----------------------------------------------------------------------------
(* PoseCamera: the component that owns the smoother and the counter *)

\* const NO_POSE_TIMEOUT = 2000
NO_POSE_TIMEOUT == 2000

\* what backend.estimate() resolves with: no pose, or one pose with a
\* trusted knee
CameraFrames == {<<>>, <<[keypoints |-> <<KneeAt(<<100, 200>>, 900)>>]>>}

\* getBackend(): the ML Kit class when ML Kit is selected.  Its constructor
\* is the implicit one and never throws, so the catch around
\* new MlkitPoseBackend() never runs; TfjsPoseBackend otherwise.
getBackend(mlkitSelected) == IF mlkitSelected THEN "mlkit" ELSE "tfjs"

\* backend.init(): the ML Kit class throws 'not implemented'; loading the
\* TensorFlow.js detector succeeds or fails
InitOutcomes(backend) == IF backend = "mlkit" THEN {"throws"} ELSE {"resolves", "throws"}

\* the component after its first render, with ML Kit selected or not.
\* starting is where startCamera() waits ("no" when it is not running),
\* failedAt where it waited when its catch block last ran,
\* backend the one it got from getBackend(), startWarning the noPoseWarning
\* its closure holds, effectWarning the one the visibilitychange listener
\* holds; streams and intervals are the camera streams open and the timers
\* scheduled, whoever still refers to them; inFlight holds, per detect()
\* waiting for its estimate, the noPoseWarning that callback closed over;
\* stopped tells that stopCamera() has run since startCamera() was last called.
MountedCamera(mlkitSelected) ==
    [mounted |-> TRUE, hidden |-> FALSE, mlkitSelected |-> mlkitSelected,
     starting |-> "no", failedAt |-> "no", backend |-> "none",
     startWarning |-> FALSE,
     isActive |-> FALSE, isLoading |-> FALSE, error |-> FALSE,
     noPoseWarning |-> FALSE, effectWarning |-> FALSE,
     streamRef |-> 0, streams |-> {}, opened |-> 0,
     backendRef |-> "none",
     detectionIntervalRef |-> 0, intervals |-> NoHistory, loops |-> 0,
     inFlight |-> <<>>, ticks |-> 0, lastPoseTimeRef |-> 0,
     starts |-> 0, stopped |-> FALSE]

\* startDetectionLoop() from a closure that holds warning: a new timer,
\* stored over whatever detectionIntervalRef held
startDetectionLoop(c, warning) ==
    [c EXCEPT !.loops = @ + 1,
              !.intervals = ((c.loops + 1) :> warning) @@ @,
              !.detectionIntervalRef = c.loops + 1]

\* clearInterval(detectionIntervalRef.current) when it is set
clearDetection(c) ==
    [c EXCEPT !.intervals = [i \in DOMAIN @ \ {c.detectionIntervalRef} |-> @[i]],
              !.detectionIntervalRef = 0]

\* the camera fields after stopCamera(); it also resets smoother and counter
stopCamera(c) ==
    [clearDetection(c) EXCEPT
        !.streams = @ \ {c.streamRef},
        !.streamRef = 0,
        !.backendRef = "none",
        !.isActive = FALSE,
        !.noPoseWarning = FALSE,
        !.effectWarning = IF c.isActive THEN FALSE ELSE @,
        !.stopped = TRUE]

\* the catch block of startCamera()
startFailed(c) ==
    [c EXCEPT !.error = TRUE, !.isLoading = FALSE, !.starting = "no",
              !.failedAt = c.starting]

\* startCamera() from const backend = getBackend(modelType) to its await
obtainBackend(c) ==
    [c EXCEPT !.backend = getBackend(c.mlkitSelected), !.starting = "init"]

idleObjects == <<exerciseType, state, angleHistory, cycle,
                 previousKeypoints, alpha, frame, emitted, streak>>

InitCamera ==
    /\ now = 0
    /\ exerciseType = NewRepCounter("squat", 0).exerciseType
    /\ state = NewRepCounter("squat", 0).state
    /\ angleHistory = NewRepCounter("squat", 0).angleHistory
    /\ previousKeypoints = NoHistory
    /\ alpha = ConstructedAlpha
    /\ frame = <<>>
    /\ emitted = <<>>
    /\ call = Called("new", "none")
    /\ cycle = NoCycle
    /\ streak = NoHistory
    /\ \E mlkitSelected \in BOOLEAN : camera = MountedCamera(mlkitSelected)

\* time passes: half the no-pose timeout, or a millisecond more
CameraTick ==
    \E d \in {NO_POSE_TIMEOUT \div 2, NO_POSE_TIMEOUT \div 2 + 1} :
        /\ now + d <= MaxHalfTimeouts * (NO_POSE_TIMEOUT \div 2 + 1)
        /\ now' = now + d
        /\ call' = Called("tick", "none")
        /\ UNCHANGED <<idleObjects, camera>>

\* the button while it reads Start: startCamera() up to getUserMedia
StartCamera ==
    /\ camera.mounted /\ ~camera.isLoading /\ ~camera.isActive
    /\ camera.starts < MaxStarts
    /\ camera' = [camera EXCEPT !.starts = @ + 1,
                                !.isLoading = TRUE,
                                !.error = FALSE,
                                !.noPoseWarning = FALSE,
                                !.startWarning = camera.noPoseWarning,
                                !.starting = "media",
                                !.stopped = FALSE]
    /\ call' = Called("startCamera", "none")
    /\ UNCHANGED <<now, idleObjects>>

\* getUserMedia resolves: the stream is stored over whatever streamRef held;
\* with a video element startCamera() waits for its metadata, without one it
\* goes on to the backend
MediaGranted ==
    /\ camera.starting = "media"
    /\ LET c == [camera EXCEPT !.opened = @ + 1,
                               !.streams = @ \cup {camera.opened + 1},
                               !.streamRef = camera.opened + 1]
       IN  camera' = IF camera.mounted
                     THEN [c EXCEPT !.starting = "metadata"]
                     ELSE obtainBackend(c)
    /\ call' = Called("mediaGranted", "none")
    /\ UNCHANGED <<now, idleObjects>>

\* getUserMedia rejects
MediaDenied ==
    /\ camera.starting = "media"
    /\ camera' = startFailed(camera)
    /\ call' = Called("mediaDenied", "none")
    /\ UNCHANGED <<now, idleObjects>>

\* loadedmetadata arrives: videoRef.current.play() throws when the element
\* is gone, and startCamera() goes on to the backend otherwise
MetadataLoaded ==
    /\ camera.starting = "metadata"
    /\ camera' = IF camera.mounted THEN obtainBackend(camera) ELSE startFailed(camera)
    /\ call' = Called("metadataLoaded", "none")
    /\ UNCHANGED <<now, idleObjects>>

\* backend.init() settles: the rest of startCamera(), or its catch block
BackendInit ==
    /\ camera.starting = "init"
    /\ \E outcome \in InitOutcomes(camera.backend) :
         camera' =
           IF outcome = "throws" THEN startFailed(camera)
           ELSE startDetectionLoop(
                  [camera EXCEPT !.backendRef = camera.backend,
                                 !.isActive = TRUE,
                                 !.isLoading = FALSE,
                                 !.effectWarning = camera.noPoseWarning,
                                 !.lastPoseTimeRef = now,
                                 !.starting = "no"],
                  camera.startWarning)
    /\ call' = Called("backendInit", "none")
    /\ UNCHANGED <<now, idleObjects>>

\* smootherRef.current.reset() and repCounterRef.current.reset()
ResetObjects ==
    /\ SetRC(reset(RC, now))
    /\ cycle' = NoCycle
    /\ previousKeypoints' = Smoother_reset
    /\ streak' = NoHistory
    /\ UNCHANGED <<now, alpha, frame, emitted>>

\* the button while it reads Stop: stopCamera()
StopCamera ==
    /\ camera.mounted /\ camera.isActive /\ ~camera.isLoading
    /\ camera' = stopCamera(camera)
    /\ ResetObjects
    /\ call' = Called("stopCamera", "none")

\* the component unmounts: the cleanup of the first effect calls
\* stopCamera(), the refs to the elements become null and the
\* visibilitychange listener is removed
Unmount ==
    /\ camera.mounted
    /\ camera' = [stopCamera(camera) EXCEPT !.mounted = FALSE]
    /\ ResetObjects
    /\ call' = Called("unmount", "none")

\* visibilitychange with document.hidden: the timer in
\* detectionIntervalRef is cleared
Hide ==
    /\ camera.mounted /\ ~camera.hidden
    /\ camera' = [clearDetection(camera) EXCEPT !.hidden = TRUE]
    /\ call' = Called("hide", "none")
    /\ UNCHANGED <<now, idleObjects>>

\* visibilitychange with the document visible: a new loop when the camera
\* is active and detectionIntervalRef is empty
Show ==
    /\ camera.mounted /\ camera.hidden
    /\ camera.loops < MaxLoops
    /\ LET c == [camera EXCEPT !.hidden = FALSE]
       IN  camera' = IF camera.isActive /\ camera.detectionIntervalRef = 0
                     THEN startDetectionLoop(c, camera.effectWarning)
                     ELSE c
    /\ call' = Called("show", "none")
    /\ UNCHANGED <<now, idleObjects>>

\* a scheduled timer fires: detect() up to await backend.estimate(video);
\* it returns at once without the elements or without a backend
DetectStart ==
    \E id \in DOMAIN camera.intervals :
        /\ camera.mounted /\ camera.backendRef # "none"
        /\ Len(camera.inFlight) < MaxInFlight
        /\ camera.ticks < MaxTicks
        /\ camera' = [camera EXCEPT !.inFlight = Append(@, camera.intervals[id]),
                                    !.ticks = @ + 1]
        /\ call' = Called("detectStart", "none")
        /\ UNCHANGED <<now, idleObjects>>

\* inFlight without its i-th callback
Finished(inFlight, i) ==
    [j \in 1..(Len(inFlight) - 1) |-> IF j < i THEN inFlight[j] ELSE inFlight[j + 1]]

\* backend.estimate() of a waiting detect() rejects: its catch block
DetectThrows ==
    \E i \in 1..Len(camera.inFlight) :
        /\ camera' = [camera EXCEPT !.inFlight = Finished(@, i)]
        /\ call' = Called("detect", "threw")
        /\ UNCHANGED <<now, idleObjects>>

\* backend.estimate() of a waiting detect() resolves with no pose: the
\* warning is raised when the last pose is more than NO_POSE_TIMEOUT ago
DetectNoPose ==
    \E i \in 1..Len(camera.inFlight) :
        /\ camera' = [camera EXCEPT
                        !.inFlight = Finished(@, i),
                        !.noPoseWarning =
                            IF now - camera.lastPoseTimeRef > NO_POSE_TIMEOUT
                            THEN TRUE ELSE @]
        /\ call' = Called("detect", "empty")
        /\ UNCHANGED <<now, idleObjects>>

\* backend.estimate() of a waiting detect() resolves with poses: smooth(),
\* update() on what smooth() returned, lastPoseTimeRef, and
\* setNoPoseWarning(false) when the noPoseWarning the callback closed over
\* is set
DetectPose ==
    \E i \in 1..Len(camera.inFlight), poses \in CameraFrames \ {<<>>} :
        LET s == smooth(poses, previousKeypoints, alpha, now)
            r == update(RC, s.out, now)
        IN  /\ previousKeypoints' = s.history
            /\ emitted' = s.out
            /\ streak' = NextStreak(s.history, now)
            /\ frame' = poses
            /\ SetRC(r)
            /\ cycle' = IF r.angleHistory = angleHistory THEN cycle
                        ELSE NextCycle(cycle, MeanAngle(r.angleHistory), now,
                                       r.state.count # state.count)
            /\ camera' = [camera EXCEPT
                            !.inFlight = Finished(@, i),
                            !.lastPoseTimeRef = now,
                            !.noPoseWarning =
                                IF camera.inFlight[i] THEN FALSE ELSE @]
            /\ call' = Called("detect", "pose")
            /\ UNCHANGED <<now, alpha>>

NextCamera ==
    \/ CameraTick
    \/ StartCamera
    \/ MediaGranted
    \/ MediaDenied
    \/ MetadataLoaded
    \/ BackendInit
    \/ StopCamera
    \/ Unmount
    \/ Hide
    \/ Show
    \/ DetectStart
    \/ DetectThrows
    \/ DetectNoPose
    \/ DetectPose

SpecCamera == InitCamera /\ [][NextCamera]_vars

----------------------------------------------------------------------------
(* Claims about the RepCounter, checked under SpecCounter *)

\* the smoothed angle of the update() just executed; Null when it had none
Smoothed == SmoothedOf(exerciseType, call.kind, angleHistory)

\* C1: RepState.count never decreases from one update() call to the next,
\* whatever the poses and the time.
C1_CountMonotonic ==
    [][call'.op = "update" => state'.count >= state.count]_vars

\* an update() has just counted the second rep
C1_Witness ==
    call.op = "update" /\ state.count = 2 /\ state.lastRepTime = now

\* C2: an update() that increments count starts in state 'down' with the
\* debounce window elapsed since lastRepTime; it increments by exactly 1,
\* sets state to 'up' and lastRepTime to the current time; and no other
\* update() changes lastRepTime.
C2_IncrementGuard ==
    [][call'.op = "update" =>
          /\ state'.count # state.count =>
                /\ state.state = "down"
                /\ now - state.lastRepTime >= DEBOUNCE_MS
                /\ state'.count = state.count + 1
                /\ state'.state = "up"
                /\ state'.lastRepTime = now
          /\ state'.lastRepTime # state.lastRepTime =>
                state'.count = state.count + 1]_vars

\* an update() has just counted the first rep, later than the clock's start
C2_Witness ==
    /\ call.op = "update"
    /\ state.count = 1
    /\ state.state = "up"
    /\ state.lastRepTime = now
    /\ now > DEBOUNCE_MS

\* C3, as claimed: a cycle whose smoothed angle crossed below 90 degrees and
\* then above 160 degrees, with at least 300 ms between the crossings and
\* since lastRepTime, is counted: the signal does not fall below 90 degrees
\* again with that cycle still uncounted.
C3_CycleCountedAtWindow ==
    [][~ /\ call'.op = "update"
         /\ cycle.phase = "high"
         /\ cycle.highAt - cycle.lowAt >= DEBOUNCE_MS
         /\ cycle.highAt - state.lastRepTime >= DEBOUNCE_MS
         /\ cycle'.phase = "low"]_vars

\* C3, amended: in a squat counter, the update() in which the smoothed angle
\* first rises above 160 degrees after having been below 90 degrees counts
\* exactly one rep when more than 300 ms have passed since lastRepTime (the
\* construction, the last reset or the last increment); and count changes
\* only in a cycle that has been below 90 degrees, by exactly 1.
C3_CycleCountedPastWindow ==
    [][call'.op = "update" =>
          /\ ( /\ cycle.phase = "low"
               /\ NumGt(Smoothed', Deg(160))
               /\ now - state.lastRepTime > DEBOUNCE_MS )
             => state'.count = state.count + 1
          /\ state'.count # state.count =>
                /\ state'.count = state.count + 1
                /\ cycle.phase \in {"low", "high"}]_vars

\* the first cycle after construction or reset has just been counted, on the
\* frame of its rise above 160 degrees
C3_Witness ==
    /\ call.op = "update"
    /\ state.count = 1
    /\ state.lastRepTime = now
    /\ NumGt(Smoothed, Deg(160))
    /\ cycle = NoCycle
    /\ Len(angleHistory) = SMOOTHING_WINDOW

\* C4, as claimed: once a cycle has risen above 160 degrees within 300 ms of
\* a counted rep, no later frame in which the smoothed angle is above 160
\* degrees (so without a new crossing below 90) increments count.
C4_NoLateIncrement ==
    [][( /\ call'.op = "update"
         /\ cycle.phase = "high"
         /\ state.count >= 1
         /\ cycle.highAt - state.lastRepTime < DEBOUNCE_MS
         /\ NumGt(Smoothed', Deg(160)) )
       => state'.count = state.count]_vars

\* C7, as claimed: no entry of the angle window and no RepState.angle is NaN.
C7_NoNaN ==
    /\ ~IsNaN(state.angle)
    /\ \A i \in 1..Len(angleHistory) : ~IsNaN(angleHistory[i])

\* C8: after reset() and after setExercise(type) the counter is the one the
\* constructor builds for its exercise type at this time: count 0, angle 0,
\* state 'idle', an empty angle window, lastRepTime the current time.
C8_ResetIsFresh ==
    call.op \in {"reset", "setExercise"} =>
        /\ state.count = 0
        /\ state.angle = 0
        /\ state.state = "idle"
        /\ angleHistory = <<>>
        /\ RC = NewRepCounter(exerciseType, now)

\* setExercise has just switched to push-ups, after the first debounce window
C8_Witness ==
    call.op = "setExercise" /\ exerciseType = "pushup" /\ now > DEBOUNCE_MS

\* C9: update([]) leaves count, angle, state, lastRepTime and the angle
\* window as they were.
C9_EmptyUpdateIsNoOp ==
    [][(call'.op = "update" /\ call'.kind = "empty") => UNCHANGED counterVars]_vars

\* update([]) has just run on a counter in the middle of its work
C9_Witness ==
    /\ call.op = "update"
    /\ call.kind = "empty"
    /\ state.count = 1
    /\ state.state = "down"
    /\ Len(angleHistory) = SMOOTHING_WINDOW

\* C10: an update() whose first pose lacks one of the six joints of the
\* squat angle, or has it below 0.5, changes nothing: count, angle, state,
\* lastRepTime and the angle window stay as they were.
C10_UnusableFrameIsNoOp ==
    [][(call'.op = "update" /\ call'.kind = "unusable") => UNCHANGED counterVars]_vars

\* such a frame has just been given to a squat counter that is 'down'
C10_Witness ==
    /\ call.op = "update"
    /\ call.kind = "unusable"
    /\ exerciseType = "squat"
    /\ state.state = "down"
    /\ state.angle > 0

----------------------------------------------------------------------------
(* Claims about the KeypointSmoother, checked under SpecSmoother *)

\* the places <<p, i>> of the keypoints of a list of poses
Places(poses) ==
    {<<p, i>> \in (1..Len(poses)) \X (1..2) : i <= Len(poses[p].keypoints)}

\* the places of the keypoints that are the first of their key in the
\* frame: smooth() meets them with the entry the call started with
FirstPlaces(poses) ==
    {pi \in Places(poses) :
        \A pj \in Places(poses) :
            (pj[1] < pi[1] \/ (pj[1] = pi[1] /\ pj[2] < pi[2]))
            => KeyOf(poses[pj[1]].keypoints[pj[2]]) # KeyOf(poses[pi[1]].keypoints[pi[2]])}

\* the squared distance of two keypoints exceeds MAX_POSITION_JUMP squared
FartherThanJump(a, b) ==
    (a.x - b.x) * (a.x - b.x) + (a.y - b.y) * (a.y - b.y)
      > (MAX_POSITION_JUMP * PosScale) * (MAX_POSITION_JUMP * PosScale)

\* C5, as claimed: every keypoint smooth() returns with a score above 0 has
\* a stored stabilityCount of at least STABILITY_THRESHOLD.
C5_GatedOutput ==
    call.op = "smooth" =>
        \A pi \in Places(emitted) :
            LET out == emitted[pi[1]].keypoints[pi[2]]
                key == KeyOf(frame[pi[1]].keypoints[pi[2]])
            IN  out.score > 0 =>
                    /\ key \in DOMAIN previousKeypoints
                    /\ previousKeypoints[key].stabilityCount >= STABILITY_THRESHOLD

\* C6: a detection at or above the minimum confidence that lies farther than
\* MAX_POSITION_JUMP from the position stored for its joint is answered with
\* the stored keypoint, its score multiplied by 0.95, and the joint's history
\* entry stays as it was (for the joint's first detection in the frame,
\* which meets the entry as the call found it).
C6_JumpRejected ==
    [][call'.op = "smooth" =>
          \A pi \in FirstPlaces(frame') :
              LET kp == frame'[pi[1]].keypoints[pi[2]]
                  key == KeyOf(kp)
                  out == emitted'[pi[1]].keypoints[pi[2]]
              IN  ( /\ key \in DOMAIN previousKeypoints
                    /\ ScoreOr0(kp) >= Smoother_MIN_CONFIDENCE
                    /\ FartherThanJump(kp, previousKeypoints[key].keypoint) )
                  => /\ out.x = previousKeypoints[key].keypoint.x
                     /\ out.y = previousKeypoints[key].keypoint.y
                     /\ out.name = previousKeypoints[key].keypoint.name
                     /\ 100 * out.score - 95 * previousKeypoints[key].keypoint.score <= 50
                     /\ 95 * previousKeypoints[key].keypoint.score - 100 * out.score <= 50
                     /\ key \in DOMAIN previousKeypoints'
                     /\ previousKeypoints'[key] = previousKeypoints[key]]_vars

\* smooth() has just been given a trusted detection of the knee farther than
\* MAX_POSITION_JUMP from the stored knee, which had passed the stability gate
C6_Witness ==
    /\ call.op = "smooth"
    /\ frame # <<>>
    /\ LET kp == frame[1].keypoints[1]
           key == KeyOf(kp)
       IN  /\ key \in DOMAIN previousKeypoints
           /\ ScoreOr0(kp) >= Smoother_MIN_CONFIDENCE
           /\ FartherThanJump(kp, previousKeypoints[key].keypoint)
           /\ previousKeypoints[key].stabilityCount >= STABILITY_THRESHOLD
           /\ emitted[1].keypoints[1].score > 0

\* the only keypoint of the first pose of a frame, given or returned
Knee(poses) == poses[1].keypoints[1]

\* two smooth() calls in a row were given a first pose with the same joint
SameJointTwice ==
    /\ call.op = "smooth"
    /\ call'.op = "smooth"
    /\ frame # <<>>
    /\ frame' # <<>>
    /\ KeyOf(Knee(frame)) = KeyOf(Knee(frame'))

\* C11, as claimed: while a joint with history is reported below the minimum
\* confidence frame after frame, the score emitted for it goes down from
\* each frame to the next until it is 0.
C11_DropoutDecays ==
    [][( /\ SameJointTwice
         /\ KeyOf(Knee(frame)) \in DOMAIN previousKeypoints
         /\ ScoreOr0(Knee(frame)) < Smoother_MIN_CONFIDENCE
         /\ ScoreOr0(Knee(frame')) < Smoother_MIN_CONFIDENCE )
       => \/ Knee(emitted').score = 0
          \/ Knee(emitted').score < Knee(emitted).score]_vars

\* C12, as claimed: a good detection that stays at one place farther than
\* MAX_POSITION_JUMP from the stored position is not rejected for ever: the
\* frame that repeats it does not leave the history exactly as it found it
\* (from where the same rejection repeats on every following frame).
C12_SteadyJumpRecovers ==
    [][( /\ SameJointTwice
         /\ frame' = frame
         /\ KeyOf(Knee(frame)) \in DOMAIN previousKeypoints
         /\ ScoreOr0(Knee(frame)) >= Smoother_MIN_CONFIDENCE
         /\ FartherThanJump(Knee(frame),
                            previousKeypoints[KeyOf(Knee(frame))].keypoint) )
       => previousKeypoints' # previousKeypoints]_vars

\* v lies between a and b, ends included
Between(v, a, b) == (a <= v /\ v <= b) \/ (b <= v /\ v <= a)

\* C13, as claimed: whenever smooth() runs, the smoothing factor of the
\* smoother lies within [0.1, 1.0], whatever was given to the constructor
\* and to setAlpha.
C13_AlphaInRange ==
    call.op = "smooth" => (alpha >= AlphaScale \div 10 /\ alpha <= AlphaScale)

\* C14, as claimed: for a joint with history (taking its first detection in
\* the frame), each coordinate smooth() returns lies between the stored
\* coordinate and the raw coordinate, ends included; so a joint given at
\* its stored position stays there.
C14_NoOvershoot ==
    [][call'.op = "smooth" =>
          \A pi \in FirstPlaces(frame') :
              LET kp == frame'[pi[1]].keypoints[pi[2]]
                  key == KeyOf(kp)
                  out == emitted'[pi[1]].keypoints[pi[2]]
              IN  key \in DOMAIN previousKeypoints
                  => /\ Between(out.x, previousKeypoints[key].keypoint.x, kp.x)
                     /\ Between(out.y, previousKeypoints[key].keypoint.y, kp.y)]_vars

Accepted(pi) ==
    LET key == KeyOf(frame[pi[1]].keypoints[pi[2]])
    IN  /\ ScoreOr0(frame[pi[1]].keypoints[pi[2]]) >= Smoother_MIN_CONFIDENCE
        /\ key \in DOMAIN previousKeypoints
        /\ previousKeypoints[key].timestamp = now

\* C16 (checked over long runs of one joint, SpecRun): every stored
\* stabilityCount is at least 1 and at most STABILITY_THRESHOLD + 5; no
\* smooth() lowers the stabilityCount of a joint; and a smooth() that stores
\* a detection of a joint with history raises it by 1 up to that cap, also
\* when the blended score is below the render threshold.
C16_StabilityCount ==
    [][call'.op = "smooth" =>
          \A key \in DOMAIN previousKeypoints' :
              /\ previousKeypoints'[key].stabilityCount >= 1
              /\ previousKeypoints'[key].stabilityCount <= STABILITY_THRESHOLD + 5
              /\ key \in DOMAIN previousKeypoints =>
                    /\ previousKeypoints'[key].stabilityCount
                          >= previousKeypoints[key].stabilityCount
                    /\ previousKeypoints'[key].timestamp = now' =>
                          \/ previousKeypoints'[key].stabilityCount
                                = previousKeypoints[key].stabilityCount + 1
                          \/ /\ previousKeypoints[key].stabilityCount = STABILITY_THRESHOLD + 5
                             /\ previousKeypoints'[key].stabilityCount = STABILITY_THRESHOLD + 5]_vars

\* the knee has just been accepted with its stabilityCount at the cap, its
\* blended score below the render threshold, one frame after reaching the cap
C16_Witness ==
    /\ call.op = "smooth"
    /\ Accepted(<<1, 1>>)
    /\ previousKeypoints[KeyOf(Knee(frame))].stabilityCount = STABILITY_THRESHOLD + 5
    /\ previousKeypoints[KeyOf(Knee(frame))].keypoint.score < RENDER_CONFIDENCE
    /\ Knee(emitted).score = 0
    /\ now > (STABILITY_THRESHOLD + 5) * FRAME_INTERVAL

\* C17, as claimed: when smooth() has stored a detection of a joint, the
\* stored stabilityCount is no larger than the number of frames in a row, up
\* to this one, that stored a detection of it; so a detection is returned
\* with a score above 0 only after STABILITY_THRESHOLD such frames in a row.
C17_ConsecutiveStreak ==
    call.op = "smooth" =>
        \A pi \in Places(frame) :
            LET key == KeyOf(frame[pi[1]].keypoints[pi[2]])
            IN  Accepted(pi) =>
                    /\ previousKeypoints[key].stabilityCount <= streak[key]
                    /\ emitted[pi[1]].keypoints[pi[2]].score > 0
                          => streak[key] >= STABILITY_THRESHOLD

\* C18: a joint without history whose confidence is below the minimum (an
\* absent score counting as 0) is returned where it was detected with score
\* 0, and no history entry is made for it.
C18_FaintFirstSighting ==
    [][call'.op = "smooth" =>
          \A pi \in FirstPlaces(frame') :
              LET kp == frame'[pi[1]].keypoints[pi[2]]
                  out == emitted'[pi[1]].keypoints[pi[2]]
              IN  ( /\ KeyOf(kp) \notin DOMAIN previousKeypoints
                    /\ ScoreOr0(kp) < Smoother_MIN_CONFIDENCE )
                  => /\ out = [kp EXCEPT !.score = 0]
                     /\ KeyOf(kp) \notin DOMAIN previousKeypoints']_vars

\* after a reset(), smooth() has just been given the knee without a score
\* and a later one a keypoint without a name below the minimum
C18_Witness ==
    /\ call.op = "smooth"
    /\ now > FRAME_INTERVAL
    /\ frame # <<>>
    /\ Knee(frame).score = Undefined
    /\ Knee(emitted).score = 0
    /\ previousKeypoints = NoHistory

\* C19: reset() leaves the history empty, and the smooth() that follows it
\* treats every detection at or above the minimum confidence that is the
\* first of its joint in the frame as a first sighting: it is returned at
\* its raw position with score 0 and, when the frame holds the joint once,
\* stored as detected with stabilityCount 1.
C19_ResetForgets ==
    [][/\ call'.op = "smootherReset" => previousKeypoints' = NoHistory
       /\ (call.op = "smootherReset" /\ call'.op = "smooth") =>
             \A pi \in FirstPlaces(frame') :
                 LET kp == frame'[pi[1]].keypoints[pi[2]]
                     out == emitted'[pi[1]].keypoints[pi[2]]
                     once == \A pj \in FirstPlaces(frame') \cup Places(frame') :
                                 KeyOf(frame'[pj[1]].keypoints[pj[2]]) = KeyOf(kp)
                                 => pj = pi
                 IN  ScoreOr0(kp) >= Smoother_MIN_CONFIDENCE
                     => /\ out = [kp EXCEPT !.score = 0]
                        /\ KeyOf(kp) \in DOMAIN previousKeypoints'
                        /\ once => previousKeypoints'[KeyOf(kp)]
                                     = [keypoint |-> kp, timestamp |-> now',
                                        stabilityCount |-> 1]]_vars

\* a knee that had passed the stability gate before a reset() has just been
\* seen again, at another place, and is held back as a first sighting
C19_Witness ==
    /\ call.op = "smooth"
    /\ now = MaxFrames * FRAME_INTERVAL
    /\ frame # <<>>
    /\ Knee(frame).score = 900
    /\ Knee(emitted).score = 0
    /\ KeyOf(Knee(frame)) \in DOMAIN previousKeypoints
    /\ previousKeypoints[KeyOf(Knee(frame))].stabilityCount = 1
    /\ previousKeypoints[KeyOf(Knee(frame))].timestamp = now

\* C20, as claimed: the history smooth() leaves after a frame of several
\* poses is the one it leaves after the frame's first pose alone.
C20_OnlyFirstPose ==
    [][(call'.op = "smooth" /\ Len(frame') > 1)
       => previousKeypoints'
            = smooth(<<frame'[1]>>, previousKeypoints, alpha, now').history]_vars

----------------------------------------------------------------------------
(* Further claims about the RepCounter, checked under SpecCounter *)

\* C21, as claimed: for every exercise type, an update() with a frame whose
\* joints are all confident gives angle feedback: the angle window holds the
\* angle of that frame.
C21_EveryExerciseCounts ==
    (call.op = "update" /\ call.kind = "regular") => angleHistory # <<>>

\* C22: in a squat counter, an update() whose smoothed angle is below 90
\* degrees while the state is 'idle' or 'up' leaves the state 'down' with
\* count and lastRepTime unchanged; and an update() that starts in 'down'
\* ends in 'down' unless it increments count.
C22_DownIsHeld ==
    [][(call'.op = "update" /\ exerciseType = "squat") =>
          /\ (call'.raw # Null /\ NumLt(Smoothed', Deg(90)) /\ state.state # "down")
                => /\ state'.state = "down"
                   /\ state'.count = state.count
                   /\ state'.lastRepTime = state.lastRepTime
          /\ state.state = "down"
                => (state'.state = "down" \/ state'.count = state.count + 1)]_vars

\* after a counted rep the smoothed angle has fallen below 90 degrees again
\* and the counter is 'down'
C22_Witness ==
    /\ call.op = "update"
    /\ call.raw # Null
    /\ NumLt(Smoothed, Deg(90))
    /\ state.state = "down"
    /\ state.count = 1

\* the window w holds a NaN
HoldsNaN(w) == \E i \in 1..Len(w) : IsNaN(w[i])

\* C23: the angle window never holds more than SMOOTHING_WINDOW values; an
\* update() that computes an angle appends it and drops the oldest value
\* when the window overflows, the order kept; and RepState.angle is the
\* arithmetic mean of the window rounded to the nearest integer (stated for
\* windows of numbers: a NaN in the window is the matter of C7).
C23_SlidingWindow ==
    [][/\ Len(angleHistory') <= SMOOTHING_WINDOW
       /\ (call'.op = "update" /\ call'.raw # Null) =>
             /\ angleHistory'
                  = IF Len(angleHistory) < SMOOTHING_WINDOW
                    THEN Append(angleHistory, call'.raw)
                    ELSE SubSeq(Append(angleHistory, call'.raw), 2, SMOOTHING_WINDOW + 1)
             /\ ~HoldsNaN(angleHistory') =>
                   LET n == Len(angleHistory')
                       sum == SumAngles(angleHistory')
                       whole == AngleScale * state'.angle
                   IN  /\ 2 * n * whole <= 2 * sum + AngleScale * n
                       /\ 2 * sum + AngleScale * n < 2 * n * (whole + AngleScale)]_vars

\* an update() has just pushed an angle into a full window, after a counted
\* rep, and the window holds different angles
C23_Witness ==
    /\ call.op = "update"
    /\ call.raw # Null
    /\ state.count = 1
    /\ Len(angleHistory) = SMOOTHING_WINDOW
    /\ ~HoldsNaN(angleHistory)
    /\ angleHistory[1] # angleHistory[SMOOTHING_WINDOW]

\* C30: in every state of the counter, 'up' implies count >= 1 and
\* count >= 1 implies 'up' or 'down'; and the state becomes 'idle' only by
\* reset() or setExercise() (after construction), never by update().
C30_StateAndCount ==
    [][/\ state'.state = "up" => state'.count >= 1
       /\ state'.count >= 1 => state'.state \in {"up", "down"}
       /\ (state'.state = "idle" /\ state.state # "idle")
             => call'.op \in {"reset", "setExercise"}
       /\ call'.op = "update" => (state'.state = "idle" => state.state = "idle")]_vars

\* an update() with an unusable frame has just left a counter with one
\* counted rep in 'up'
C30_Witness ==
    /\ call.op = "update"
    /\ call.kind = "unusable"
    /\ state.state = "up"
    /\ state.count = 1

----------------------------------------------------------------------------
(* Further claims about the KeypointSmoother, checked under SpecSmoother *)

\* the squared distance of two keypoints is at most MAX_POSITION_JUMP squared
WithinJump(a, b) ==
    (a.x - b.x) * (a.x - b.x) + (a.y - b.y) * (a.y - b.y)
      <= (MAX_POSITION_JUMP * PosScale) * (MAX_POSITION_JUMP * PosScale)

\* C24, as claimed: a detection at or above the minimum confidence that
\* lies MAX_POSITION_JUMP or less from the position stored for its joint,
\* exactly MAX_POSITION_JUMP included, is accepted: smooth() stores it into
\* the joint's history at this frame.
C24_BoundaryAccepted ==
    [][call'.op = "smooth" =>
          \A pi \in FirstPlaces(frame') :
              LET kp == frame'[pi[1]].keypoints[pi[2]]
                  key == KeyOf(kp)
              IN  ( /\ key \in DOMAIN previousKeypoints
                    /\ ScoreOr0(kp) >= Smoother_MIN_CONFIDENCE
                    /\ WithinJump(kp, previousKeypoints[key].keypoint) )
                  => previousKeypoints'[key].timestamp = now']_vars

\* C25: a detection below the minimum confidence of a joint whose stored
\* score is a number at or above the render threshold is answered with the
\* stored keypoint, its score multiplied by 0.9; with a lower stored score
\* or without history it is answered with the raw keypoint and score 0; and
\* in both cases the history stays as it was.
C25_Dropout ==
    [][call'.op = "smooth" =>
          \A pi \in FirstPlaces(frame') :
              LET kp == frame'[pi[1]].keypoints[pi[2]]
                  key == KeyOf(kp)
                  out == emitted'[pi[1]].keypoints[pi[2]]
                  has == key \in DOMAIN previousKeypoints
              IN  ScoreOr0(kp) < Smoother_MIN_CONFIDENCE =>
                    /\ has => /\ key \in DOMAIN previousKeypoints'
                              /\ previousKeypoints'[key] = previousKeypoints[key]
                    /\ ~has => key \notin DOMAIN previousKeypoints'
                    /\ IF has /\ previousKeypoints[key].keypoint.score >= RENDER_CONFIDENCE
                       THEN /\ out.x = previousKeypoints[key].keypoint.x
                            /\ out.y = previousKeypoints[key].keypoint.y
                            /\ out.name = previousKeypoints[key].keypoint.name
                            /\ 10 * out.score - 9 * previousKeypoints[key].keypoint.score <= 5
                            /\ 9 * previousKeypoints[key].keypoint.score - 10 * out.score <= 5
                       ELSE out = [kp EXCEPT !.score = 0]]_vars

\* the knee, stored at another place with a score between the minimum and
\* the render threshold, has just been reported without a score and is
\* answered where it was reported, with score 0
C25_Witness ==
    /\ call.op = "smooth"
    /\ frame # <<>>
    /\ Knee(frame).score = Undefined
    /\ KeyOf(Knee(frame)) \in DOMAIN previousKeypoints
    /\ previousKeypoints[KeyOf(Knee(frame))].keypoint.score < RENDER_CONFIDENCE
    /\ previousKeypoints[KeyOf(Knee(frame))].keypoint.x # Knee(frame).x
    /\ Knee(emitted) = [Knee(frame) EXCEPT !.score = 0]

----------------------------------------------------------------------------
(* Claims about PoseCamera, checked under SpecCamera *)

\* C26: with ML Kit selected but not available, startCamera() does not end
\* in its error state because of the backend: the backend it got from
\* getBackend() and initialised is not the ML Kit one that cannot be used.
C26_MlkitFallsBack ==
    ~(camera.mlkitSelected /\ camera.error
        /\ camera.failedAt = "init" /\ camera.backend = "mlkit")

\* C27: once stopCamera() has run, with no session started or starting
\* since, no timer scheduled and every detect() that was waiting for its
\* estimate finished, the smoother's history is empty and the counter is as
\* constructed: count 0, state 'idle', empty angle window.
C27_ResetCancels ==
    (/\ camera.stopped /\ ~camera.isActive /\ camera.starting = "no"
     /\ DOMAIN camera.intervals = {}
     /\ camera.inFlight = <<>>)
    => (/\ previousKeypoints = NoHistory
        /\ state.count = 0 /\ state.state = "idle"
        /\ angleHistory = <<>>)

\* C28: never more than one detection timer is scheduled, and once
\* stopCamera() has run (and startCamera() was not called again) no timer is
\* scheduled and no camera stream is open.
C28_NothingLeftRunning ==
    /\ Cardinality(DOMAIN camera.intervals) <= 1
    /\ camera.stopped => (DOMAIN camera.intervals = {} /\ camera.streams = {})

\* C29: the warning is raised only by a detect() without a pose more than
\* NO_POSE_TIMEOUT after the last pose, and after a detect() with a pose
\* noPoseWarning is false.
C29_WarningTracksPose ==
    [][/\ (~camera.noPoseWarning /\ camera'.noPoseWarning)
            => (/\ call'.op = "detect" /\ call'.kind = "empty"
                /\ now - camera.lastPoseTimeRef > NO_POSE_TIMEOUT)
       /\ (camera.mounted /\ camera.isActive
            /\ call'.op = "detect" /\ call'.kind = "pose")
            => ~camera'.noPoseWarning]_vars

====
